---- MODULE Spec2Model ----
(***************************************************************************)
(* Model of backend/helpers/database/connection_to_db.py: the module-level *)
(* start-up (get_db_url, connect_to_postgresql, the engine check and the   *)
(* session factory), the two session scopes get_db and get_db_context, and *)
(* init_db, check_db_connection and close_db_connection.                   *)
(*                                                                         *)
(* A scope is a Python generator; its try / except Exception / finally     *)
(* structure is modelled statement by statement with a program counter per *)
(* scope.  Every call into SQLAlchemy (create_engine, SessionLocal(),      *)
(* commit, rollback, close) either returns or raises an Exception; which   *)
(* one is chosen by the environment.                                       *)
(***************************************************************************)
EXTENDS Integers, Sequences, FiniteSets, TLC

\* Number of scope entries (calls of get_db / get_db_context) in one run.
MaxScopes == 2

\* Scope s is the s-th call of get_db / get_db_context of the run.
Scopes == 1 .. MaxScopes
\* SessionLocal() builds a new Session object per call: at most one per scope.
Handles == 1 .. MaxScopes
NoHandle == 0
NoScope == 0

-----------------------------------------------------------------------------
(* Values *)

\* Python's None (os.getenv without default, the return of line 66).
None == "None"

\* An exception value: its class and its message.
Exc(k, m) == [kind |-> k, msg |-> m]
NoExc == Exc("none", "")
\* What the code that entered a scope has observed so far.
NotCalled == Exc("not called", "")
Pending == Exc("pending", "")
Returned == Exc("returned", "")

\* Classes that derive from BaseException but not from Exception: the
\* clause "except Exception" (lines 64, 116, 141) does not catch them.
BaseOnlyKinds == {"KeyboardInterrupt", "GeneratorExit"}
IsException(e) == e # NoExc /\ e.kind \notin BaseOnlyKinds

\* What the caller's block may raise while it holds the session.
BlockFailures == {Exc("ValueError", "domain failure"),
                  Exc("IntegrityError", "duplicate key")}
BlockSignals == {Exc("KeyboardInterrupt", ""), Exc("GeneratorExit", "")}
BlockRaises == BlockFailures \cup BlockSignals

\* What the SQLAlchemy calls raise when they fail.
AcquireError == Exc("TimeoutError", "QueuePool limit reached")
CommitError == Exc("OperationalError", "commit failed")
RollbackError == Exc("OperationalError", "rollback failed")
CloseError == Exc("OperationalError", "close failed")
EngineErrors == {Exc("OperationalError", "connection refused"),
                 Exc("ArgumentError", "could not parse URL")}

\* The two values of DB_PASSWORD that are falsy, and one that is not.
Passwords == {None, "", "secret"}

\* The outcome of one library call: it returns, or it raises.
Ok == "ok"
Fail == "fail"
Outcomes == {Ok, Fail}

PLAIN == "get_db"
TXN == "get_db_context"
Kinds == {PLAIN, TXN}

-----------------------------------------------------------------------------
VARIABLES
    DB_PASSWORD,        \* line 21: os.getenv("DB_PASSWORD")
    boot,               \* position of the module's top-level code
    engine,             \* line 70: the module global engine
    SessionLocal,       \* line 76: TRUE once the session factory is bound
    createEngineCalls,  \* number of calls of create_engine (line 51)
    engineOutcome,      \* what the call of create_engine did, if it was made
    startupLog,         \* lines logged by connect_to_postgresql
    startupExc,         \* the exception that left the module's import
    pc,                 \* per scope: the statement the generator is at
    kind,               \* per scope: which of the two generators it runs
    db,                 \* per scope: the local variable db
    exc,                \* per scope: the exception in flight in the generator
    raised,             \* per scope: what the caller's block raised
    log,                \* per scope: the lines logger.error wrote
    result,             \* per scope: what the entering code observed
    nextHandle,         \* identity of the next Session SessionLocal() builds
    owner,              \* per handle: the scope whose SessionLocal() built it
    ops,                \* per handle: the calls made on the session, in order
    initDb,             \* what the call of init_db did, if it was made
    lastCheck,          \* what the last call of check_db_connection returned
    closeDb,            \* what the call of close_db_connection did, if made
    disposals           \* the functions that called engine.dispose(), in order

startupVars == <<DB_PASSWORD, boot, engine, SessionLocal, createEngineCalls,
                 engineOutcome, startupLog, startupExc>>
scopeVars == <<pc, kind, db, exc, raised, log, result>>
handleVars == <<nextHandle, owner, ops>>
poolVars == <<initDb, lastCheck, closeDb, disposals>>
vars == <<startupVars, scopeVars, handleVars, poolVars>>

\* One call on a session: what was called, by which scope's code, and
\* whether the call returned (TRUE) or raised (FALSE).
Op(o, s, returned) == [op |-> o, by |-> s, ok |-> returned]

Init ==
    /\ DB_PASSWORD \in Passwords
    /\ boot = "importing"
    /\ engine = "unbound"
    /\ SessionLocal = FALSE
    /\ createEngineCalls = 0
    /\ engineOutcome = NotCalled
    /\ startupLog = <<>>
    /\ startupExc = NoExc
    /\ pc = [s \in Scopes |-> "idle"]
    /\ kind = [s \in Scopes |-> "none"]
    /\ db = [s \in Scopes |-> NoHandle]
    /\ exc = [s \in Scopes |-> NoExc]
    /\ raised = [s \in Scopes |-> NoExc]
    /\ log = [s \in Scopes |-> <<>>]
    /\ result = [s \in Scopes |-> Pending]
    /\ nextHandle = 1
    /\ owner = [h \in Handles |-> NoScope]
    /\ ops = [h \in Handles |-> <<>>]
    /\ initDb = "not called"
    /\ lastCheck = "not called"
    /\ closeDb = "not called"
    /\ disposals = <<>>

-----------------------------------------------------------------------------
(* Start-up: lines 27-80 *)

\* Variant of get_db_url that tests "DB_PASSWORD is None" instead of
\* "not DB_PASSWORD": an empty password yields a URL.
get_db_url_NoneOnly(pw) ==
    IF pw = None
    THEN [raises |-> Exc("ValueError", "DB_PASSWORD environment variable is not set"),
          value |-> None]
    ELSE [raises |-> NoExc, value |-> <<"postgresql", pw>>]

\* get_db_url: raises ValueError when DB_PASSWORD is falsy, else the URL.
get_db_url(pw) ==
    IF pw = None \/ pw = ""
    THEN [raises |-> Exc("ValueError", "DB_PASSWORD environment variable is not set"),
          value |-> None]
    ELSE [raises |-> NoExc, value |-> <<"postgresql", pw>>]

\* Variant of connect_to_postgresql whose except clause logs and re-raises
\* instead of returning None.
connect_to_postgresql_Reraises(pw, created) ==
    LET url == get_db_url(pw) IN
    IF url.raises # NoExc
    THEN [value |-> None, raises |-> url.raises, calls |-> 0,
          logged |-> <<[level |-> "error", e |-> url.raises]>>]
    ELSE IF created = NoExc
    THEN [value |-> "Engine", raises |-> NoExc, calls |-> 1,
          logged |-> <<[level |-> "debug", e |-> NoExc]>>]
    ELSE [value |-> None, raises |-> created, calls |-> 1,
          logged |-> <<[level |-> "error", e |-> created]>>]

\* connect_to_postgresql as a function of the password and of what
\* create_engine does when it is reached: the value returned, the exception
\* that leaves the function, the lines logged and the calls of create_engine.
connect_to_postgresql(pw, created) ==
    LET url == get_db_url(pw) IN
    IF url.raises # NoExc
    THEN \* line 48 raised inside the try: lines 64-66
         [value |-> None, raises |-> NoExc, calls |-> 0,
          logged |-> <<[level |-> "error", e |-> url.raises]>>]
    ELSE IF created = NoExc
    THEN \* lines 51-62
         [value |-> "Engine", raises |-> NoExc, calls |-> 1,
          logged |-> <<[level |-> "debug", e |-> NoExc]>>]
    ELSE \* create_engine raised an Exception: lines 64-66
         [value |-> None, raises |-> NoExc, calls |-> 1,
          logged |-> <<[level |-> "error", e |-> created]>>]

\* Line 70: engine = connect_to_postgresql()
ConnectToPostgresql(created) ==
    /\ boot = "importing"
    /\ LET r == connect_to_postgresql(DB_PASSWORD, created) IN
        /\ createEngineCalls' = createEngineCalls + r.calls
        /\ engineOutcome' = IF r.calls = 0 THEN engineOutcome ELSE created
        /\ startupLog' = startupLog \o r.logged
        /\ IF r.raises = NoExc
           THEN /\ engine' = r.value
                /\ boot' = "engine_assigned"
                /\ startupExc' = startupExc
           ELSE /\ engine' = engine
                /\ boot' = "failed"
                /\ startupExc' = r.raises
    /\ UNCHANGED <<DB_PASSWORD, SessionLocal, scopeVars, handleVars, poolVars>>

\* Variant of the module's top-level code without the check of lines 72-73:
\* the session factory is bound whatever connect_to_postgresql returned.
ModuleInit_NoCheck ==
    /\ boot = "engine_assigned"
    /\ SessionLocal' = TRUE
    /\ boot' = "ready"
    /\ UNCHANGED <<DB_PASSWORD, engine, createEngineCalls, engineOutcome,
                   startupLog, startupExc, scopeVars, handleVars, poolVars>>

\* Lines 72-80: the check of the engine, then the session factory.
ModuleInit ==
    /\ boot = "engine_assigned"
    /\ IF engine = None
       THEN /\ startupExc' = Exc("Exception", "Failed to initialize database engine")
            /\ boot' = "failed"
            /\ SessionLocal' = SessionLocal
       ELSE /\ SessionLocal' = TRUE
            /\ boot' = "ready"
            /\ startupExc' = startupExc
    /\ UNCHANGED <<DB_PASSWORD, engine, createEngineCalls, engineOutcome,
                   startupLog, scopeVars, handleVars, poolVars>>

-----------------------------------------------------------------------------
(* The scopes: lines 99-146 *)

\* Variant of the scopes that hands out one module-level session instead of
\* calling SessionLocal() per scope.
Enter_SharedSession(s, k, acquired) ==
    /\ SessionLocal
    /\ pc[s] = "idle"
    /\ \A t \in Scopes : t < s => pc[t] # "idle"
    /\ kind' = [kind EXCEPT ![s] = k]
    /\ IF acquired = Ok
       THEN /\ db' = [db EXCEPT ![s] = 1]
            /\ owner' = [owner EXCEPT ![1] = s]
            /\ pc' = [pc EXCEPT ![s] = "yielded"]
            /\ result' = result
       ELSE /\ result' = [result EXCEPT ![s] = AcquireError]
            /\ pc' = [pc EXCEPT ![s] = "done"]
            /\ UNCHANGED <<db, owner>>
    /\ UNCHANGED <<poolVars, startupVars, exc, raised, log, ops, nextHandle>>

\* Variant of the scopes with db = SessionLocal() inside the try statement:
\* a failing acquisition is logged by the except clause before it leaves.
Enter_AcquireInsideTry(s, k, acquired) ==
    /\ SessionLocal
    /\ pc[s] = "idle"
    /\ \A t \in Scopes : t < s => pc[t] # "idle"
    /\ kind' = [kind EXCEPT ![s] = k]
    /\ IF acquired = Ok
       THEN /\ db' = [db EXCEPT ![s] = nextHandle]
            /\ owner' = [owner EXCEPT ![nextHandle] = s]
            /\ nextHandle' = nextHandle + 1
            /\ pc' = [pc EXCEPT ![s] = "yielded"]
            /\ UNCHANGED <<result, log>>
       ELSE /\ log' = [log EXCEPT ![s] = Append(@, [level |-> "error", e |-> AcquireError])]
            /\ result' = [result EXCEPT ![s] = AcquireError]
            /\ pc' = [pc EXCEPT ![s] = "done"]
            /\ UNCHANGED <<db, owner, nextHandle>>
    /\ UNCHANGED <<poolVars, startupVars, exc, raised, ops>>

\* Lines 113 and 137: db = SessionLocal(), outside the try statement.
Enter(s, k, acquired) ==
    /\ SessionLocal
    /\ pc[s] = "idle"
    /\ \A t \in Scopes : t < s => pc[t] # "idle"
    /\ kind' = [kind EXCEPT ![s] = k]
    /\ IF acquired = Ok
       THEN /\ db' = [db EXCEPT ![s] = nextHandle]
            /\ owner' = [owner EXCEPT ![nextHandle] = s]
            /\ nextHandle' = nextHandle + 1
            /\ pc' = [pc EXCEPT ![s] = "yielded"]
            /\ result' = result
       ELSE /\ result' = [result EXCEPT ![s] = AcquireError]
            /\ pc' = [pc EXCEPT ![s] = "done"]
            /\ UNCHANGED <<db, owner, nextHandle>>
    /\ UNCHANGED <<poolVars, startupVars, exc, raised, log, ops>>

\* Variant in which get_db commits after the block like get_db_context.
BlockReturn_AlwaysCommits(s) ==
    /\ pc[s] = "yielded"
    /\ ops' = [ops EXCEPT ![db[s]] = Append(@, Op("use", s, TRUE))]
    /\ pc' = [pc EXCEPT ![s] = "commit"]
    /\ UNCHANGED <<poolVars, startupVars, kind, db, exc, raised, log, result,
                   nextHandle, owner>>

\* Variant of get_db with db.close() in the except clause only: a block
\* that returns ends the generator with the session still open.
BlockReturn_PlainNoClose(s) ==
    /\ pc[s] = "yielded"
    /\ ops' = [ops EXCEPT ![db[s]] = Append(@, Op("use", s, TRUE))]
    /\ IF kind[s] = TXN
       THEN pc' = [pc EXCEPT ![s] = "commit"] /\ result' = result
       ELSE pc' = [pc EXCEPT ![s] = "done"]
            /\ result' = [result EXCEPT ![s] = Returned]
    /\ UNCHANGED <<poolVars, startupVars, kind, db, exc, raised, log, nextHandle, owner>>

\* Lines 115 and 139: the caller's block ran with the session and returned.
BlockReturn(s) ==
    /\ pc[s] = "yielded"
    /\ ops' = [ops EXCEPT ![db[s]] = Append(@, Op("use", s, TRUE))]
    /\ pc' = [pc EXCEPT ![s] = IF kind[s] = TXN THEN "commit" ELSE "finally"]
    /\ UNCHANGED <<poolVars, startupVars, kind, db, exc, raised, log, result,
                   nextHandle, owner>>

\* Variant of get_db_context without its except clause (try / finally
\* only): a failing block is followed by the close alone.
BlockRaise_NoExceptClause(s, e) ==
    /\ pc[s] = "yielded"
    /\ ops' = [ops EXCEPT ![db[s]] = Append(@, Op("use", s, TRUE))]
    /\ raised' = [raised EXCEPT ![s] = e]
    /\ exc' = [exc EXCEPT ![s] = e]
    /\ pc' = [pc EXCEPT ![s] =
                IF IsException(e) /\ kind[s] = PLAIN THEN "except" ELSE "finally"]
    /\ UNCHANGED <<poolVars, startupVars, kind, db, log, result, nextHandle, owner>>

\* Lines 115 and 139: the caller's block raised e, thrown in at the yield.
BlockRaise(s, e) ==
    /\ pc[s] = "yielded"
    /\ ops' = [ops EXCEPT ![db[s]] = Append(@, Op("use", s, TRUE))]
    /\ raised' = [raised EXCEPT ![s] = e]
    /\ exc' = [exc EXCEPT ![s] = e]
    /\ pc' = [pc EXCEPT ![s] = IF IsException(e) THEN "except" ELSE "finally"]
    /\ UNCHANGED <<poolVars, startupVars, kind, db, log, result, nextHandle, owner>>

\* Variant with db.commit() after the try statement's body instead of in
\* it: a commit that raises is not followed by the rollback.
Commit_OutsideTry(s, outcome) ==
    /\ pc[s] = "commit"
    /\ ops' = [ops EXCEPT ![db[s]] = Append(@, Op("commit", s, outcome = Ok))]
    /\ pc' = [pc EXCEPT ![s] = "finally"]
    /\ exc' = [exc EXCEPT ![s] = IF outcome = Ok THEN @ ELSE CommitError]
    /\ UNCHANGED <<poolVars, startupVars, kind, db, raised, log, result, nextHandle, owner>>

\* Line 140: db.commit(), inside the try.
Commit(s, outcome) ==
    /\ pc[s] = "commit"
    /\ ops' = [ops EXCEPT ![db[s]] = Append(@, Op("commit", s, outcome = Ok))]
    /\ IF outcome = Ok
       THEN /\ pc' = [pc EXCEPT ![s] = "finally"]
            /\ exc' = exc
       ELSE /\ pc' = [pc EXCEPT ![s] = "except"]
            /\ exc' = [exc EXCEPT ![s] = CommitError]
    /\ UNCHANGED <<poolVars, startupVars, kind, db, raised, log, result, nextHandle, owner>>

\* Variant of the except clause without its logger.error call.
LogError_NotLogged(s) ==
    /\ pc[s] = "except"
    /\ pc' = [pc EXCEPT ![s] = "rollback"]
    /\ UNCHANGED <<poolVars, startupVars, kind, db, exc, raised, log, result, handleVars>>

\* Lines 117 and 142: logger.error(f"... error: {e}", exc_info=True)
LogError(s) ==
    /\ pc[s] = "except"
    /\ log' = [log EXCEPT ![s] = Append(@, [level |-> "error", e |-> exc[s]])]
    /\ pc' = [pc EXCEPT ![s] = "rollback"]
    /\ UNCHANGED <<poolVars, startupVars, kind, db, exc, raised, result, handleVars>>

\* Variant with db.close() as the last statement of the scope instead of in
\* a finally clause: a rollback that raises leaves the scope at once.
Rollback_NoFinally(s, outcome) ==
    /\ pc[s] = "rollback"
    /\ ops' = [ops EXCEPT ![db[s]] = Append(@, Op("rollback", s, outcome = Ok))]
    /\ IF outcome = Ok
       THEN /\ pc' = [pc EXCEPT ![s] = "finally"]
            /\ UNCHANGED <<exc, result>>
       ELSE /\ pc' = [pc EXCEPT ![s] = "done"]
            /\ exc' = [exc EXCEPT ![s] = NoExc]
            /\ result' = [result EXCEPT ![s] = RollbackError]
    /\ UNCHANGED <<poolVars, startupVars, kind, db, raised, log, nextHandle, owner>>

\* Variant whose except clause guards the rollback and returns when it
\* raises (try: db.rollback() / except Exception: return) instead of
\* letting the failure out.
Rollback_FailureSuppressed(s, outcome) ==
    /\ pc[s] = "rollback"
    /\ ops' = [ops EXCEPT ![db[s]] = Append(@, Op("rollback", s, outcome = Ok))]
    /\ exc' = [exc EXCEPT ![s] = IF outcome = Ok THEN @ ELSE NoExc]
    /\ pc' = [pc EXCEPT ![s] = "finally"]
    /\ UNCHANGED <<poolVars, startupVars, kind, db, raised, log, result, nextHandle, owner>>

\* Lines 118-119 and 143-144: db.rollback(), then the bare raise.
Rollback(s, outcome) ==
    /\ pc[s] = "rollback"
    /\ ops' = [ops EXCEPT ![db[s]] = Append(@, Op("rollback", s, outcome = Ok))]
    /\ exc' = [exc EXCEPT ![s] = IF outcome = Ok THEN @ ELSE RollbackError]
    /\ pc' = [pc EXCEPT ![s] = "finally"]
    /\ UNCHANGED <<poolVars, startupVars, kind, db, raised, log, result, nextHandle, owner>>

\* Variant whose finally clause calls close_all_sessions() instead of
\* db.close(): it closes the sessions of the other open scopes too.
Close_AllSessions(s, outcome) ==
    /\ pc[s] = "finally"
    /\ ops' = [h \in Handles |->
                 IF owner[h] # NoScope /\ \A i \in DOMAIN ops[h] : ops[h][i].op # "close"
                 THEN Append(ops[h], Op("close", s, outcome = Ok))
                 ELSE ops[h]]
    /\ result' = [result EXCEPT ![s] =
                    IF outcome = Fail THEN CloseError
                    ELSE IF exc[s] = NoExc THEN Returned ELSE exc[s]]
    /\ exc' = [exc EXCEPT ![s] = NoExc]
    /\ pc' = [pc EXCEPT ![s] = "done"]
    /\ UNCHANGED <<poolVars, startupVars, kind, db, raised, log, nextHandle, owner>>

\* Lines 120-121 and 145-146: db.close() in the finally clause, after which
\* the generator ends: it returns, or the exception in flight leaves it.
Close(s, outcome) ==
    /\ pc[s] = "finally"
    /\ ops' = [ops EXCEPT ![db[s]] = Append(@, Op("close", s, outcome = Ok))]
    /\ result' = [result EXCEPT ![s] =
                    IF outcome = Fail THEN CloseError
                    ELSE IF exc[s] = NoExc THEN Returned ELSE exc[s]]
    /\ exc' = [exc EXCEPT ![s] = NoExc]
    /\ pc' = [pc EXCEPT ![s] = "done"]
    /\ UNCHANGED <<poolVars, startupVars, kind, db, raised, log, nextHandle, owner>>

-----------------------------------------------------------------------------
Next ==
    \/ \E created \in {NoExc} \cup EngineErrors : ConnectToPostgresql(created)
    \/ ModuleInit
    \/ \E s \in Scopes, k \in Kinds, acquired \in Outcomes : Enter(s, k, acquired)
    \/ \E s \in Scopes : BlockReturn(s)
    \/ \E s \in Scopes, e \in BlockRaises : BlockRaise(s, e)
    \/ \E s \in Scopes, outcome \in Outcomes : Commit(s, outcome)
    \/ \E s \in Scopes : LogError(s)
    \/ \E s \in Scopes, outcome \in Outcomes : Rollback(s, outcome)
    \/ \E s \in Scopes, outcome \in Outcomes : Close(s, outcome)

Spec == Init /\ [][Next]_vars

\* The next statement of the generator of scope s, whatever its outcome.
ScopeStep(s) ==
    \/ BlockReturn(s)
    \/ \E e \in BlockRaises : BlockRaise(s, e)
    \/ \E outcome \in Outcomes : Commit(s, outcome)
    \/ LogError(s)
    \/ \E outcome \in Outcomes : Rollback(s, outcome)
    \/ \E outcome \in Outcomes : Close(s, outcome)

\* A generator runs its statements in sequence on the thread that drives it:
\* when the caller's block and the calls on the session terminate, the
\* statement a scope is at is eventually executed.
FairSpec == Spec /\ \A s \in Scopes : WF_vars(ScopeStep(s))

-----------------------------------------------------------------------------
(* The functions that work on the engine: lines 149-200 *)

\* Lines 149-171: init_db creates the tables; a failure is logged and
\* re-raised to the caller.
InitDb(outcome) ==
    /\ boot = "ready"
    /\ initDb' = IF outcome = Ok THEN "created" ELSE "raised"
    /\ UNCHANGED <<startupVars, scopeVars, handleVars, lastCheck, closeDb, disposals>>

\* Variant of check_db_connection that disposes of the pool after a failed
\* test (except Exception: ...; engine.dispose(); return False).
CheckDbConnection_Disposes(outcome) ==
    /\ boot = "ready"
    /\ lastCheck' = IF outcome = Ok THEN "True" ELSE "False"
    /\ disposals' = IF outcome = Ok THEN disposals
                    ELSE Append(disposals, "check_db_connection")
    /\ UNCHANGED <<startupVars, scopeVars, handleVars, initDb, closeDb>>

\* Lines 174-188: check_db_connection runs SELECT 1 on a connection of the
\* engine and returns True, or logs the failure and returns False.
CheckDbConnection(outcome) ==
    /\ boot = "ready"
    /\ lastCheck' = IF outcome = Ok THEN "True" ELSE "False"
    /\ UNCHANGED <<startupVars, scopeVars, handleVars, initDb, closeDb, disposals>>

\* Lines 191-200: close_db_connection calls engine.dispose(); a failure of
\* the call is logged and not re-raised.
CloseDbConnection(outcome) ==
    /\ boot = "ready"
    /\ disposals' = Append(disposals, "close_db_connection")
    /\ closeDb' = IF outcome = Ok THEN "closed" ELSE "failed"
    /\ UNCHANGED <<startupVars, scopeVars, handleVars, initDb, lastCheck>>

\* The application that imports the module.  Its start-up calls init_db
\* once, before it serves ("Should be called on application startup", line
\* 152); while it serves it enters scopes and may test the connection; its
\* shutdown, which begins when the scopes in progress have been left, calls
\* close_db_connection once ("Should be called on application shutdown",
\* line 194), after which it enters no scope.  A start-up that init_db
\* leaves by an exception does not come to serve.
AppStartup ==
    initDb = "not called" /\ closeDb = "not called" /\ \A s \in Scopes : pc[s] = "idle"
AppServing == initDb = "created" /\ closeDb = "not called"
AppShutdown == AppServing /\ \A s \in Scopes : pc[s] \in {"idle", "done"}

PoolNext ==
    \/ \E created \in {NoExc} \cup EngineErrors : ConnectToPostgresql(created)
    \/ ModuleInit
    \/ AppStartup /\ \E outcome \in Outcomes : InitDb(outcome)
    \/ AppServing /\ \E outcome \in Outcomes : CheckDbConnection(outcome)
    \/ AppShutdown /\ \E outcome \in Outcomes : CloseDbConnection(outcome)
    \/ AppServing /\ \E s \in Scopes, k \in Kinds, acquired \in Outcomes :
                        Enter(s, k, acquired)
    \/ \E s \in Scopes : ScopeStep(s)

\* The module within the life of the application.
PoolSpec == Init /\ [][PoolNext]_vars

-----------------------------------------------------------------------------
(* Vocabulary of the properties *)

\* Positions in the history of handle h at which operation o was called.
Pos(h, o) == {i \in DOMAIN ops[h] : ops[h][i].op = o}
\* Number of calls of o on handle h.
Calls(h, o) == Cardinality(Pos(h, o))
\* Every call of a on h comes strictly before every call of b on h.
Before(h, a, b) == \A i \in Pos(h, a), j \in Pos(h, b) : i < j

\* Scope s obtained a session; scope s has been left.
Acquired(s) == db[s] # NoHandle
Exited(s) == pc[s] = "done"
\* The caller's block of s returned; it raised an ordinary Exception.
BlockCompleted(s) == Acquired(s) /\ pc[s] \notin {"idle", "yielded"} /\ raised[s] = NoExc
BlockFailed(s) == raised[s] \in BlockFailures
\* The automatic commit of s was called and raised.
CommitFailed(s) == \E i \in Pos(db[s], "commit") : ~ops[db[s]][i].ok

-----------------------------------------------------------------------------
\* C1: in both scopes a session that was acquired is closed exactly once by
\* the time the scope has been left, whether the caller's block returned or
\* raised; no session is ever closed twice.
C1_ReleasedExactlyOnce ==
    /\ \A s \in Scopes : Exited(s) /\ Acquired(s) => Calls(db[s], "close") = 1
    /\ \A h \in Handles : Calls(h, "close") <= 1

\* A get_db scope left after a failing block and a get_db_context scope left
\* after a block that returned, each with its session closed once.
C1_Witness ==
    \E s, t \in Scopes :
        /\ Exited(s) /\ Acquired(s) /\ kind[s] = PLAIN /\ BlockFailed(s)
        /\ Calls(db[s], "close") = 1
        /\ Exited(t) /\ Acquired(t) /\ kind[t] = TXN /\ raised[t] = NoExc
        /\ Calls(db[t], "close") = 1

\* C2: in get_db_context the calls on a session are ordered: the session is
\* acquired before the block uses it, the use precedes the commit or the
\* rollback, and these precede the close.  When the scope has been left
\* after a block that returned, one commit was called before the one close;
\* after a block that raised an Exception, exactly one rollback was called
\* before the one close and no commit was called at all.
C2_TransactionalOrder ==
    \A s \in Scopes : kind[s] = TXN /\ Acquired(s) =>
        LET h == db[s] IN
        /\ owner[h] = s
        /\ pc[s] = "yielded" => ops[h] = <<>>
        /\ Before(h, "use", "commit") /\ Before(h, "use", "rollback")
        /\ Before(h, "use", "close")
        /\ Before(h, "commit", "close") /\ Before(h, "rollback", "close")
        /\ BlockFailed(s) => Calls(h, "commit") = 0
        /\ Exited(s) =>
            /\ Calls(h, "use") = 1 /\ Calls(h, "close") = 1
            /\ raised[s] = NoExc => Calls(h, "commit") = 1
            /\ BlockFailed(s) => Calls(h, "rollback") = 1

\* Two transactional scopes have been left, one whose block returned and
\* one whose block raised.
C2_Witness ==
    \E s, t \in Scopes :
        /\ kind[s] = TXN /\ Exited(s) /\ Acquired(s) /\ raised[s] = NoExc
        /\ Calls(db[s], "commit") = 1
        /\ kind[t] = TXN /\ Exited(t) /\ BlockFailed(t)
        /\ Calls(db[t], "rollback") = 1

\* C3: in both scopes, when the caller's block raised a failure, the
\* failure that leaves the scope is that same failure (kind and message),
\* on every path through the clean-up.
C3_FailureUnchanged ==
    \A s \in Scopes : Exited(s) /\ BlockFailed(s) => result[s] = raised[s]

\* C4 as stated: a transactional scope whose block returned ends with one
\* commit, one close and no rollback.
C4_Original ==
    \A s \in Scopes : kind[s] = TXN /\ Exited(s) /\ BlockCompleted(s) =>
        /\ Calls(db[s], "commit") = 1
        /\ Calls(db[s], "close") = 1
        /\ Calls(db[s], "rollback") = 0

\* C4 as amended: a transactional scope whose block returned ends with
\* exactly one commit and exactly one close; it ends with no rollback when
\* that commit returned, and with exactly one rollback, called after the
\* commit, when that commit raised.
C4_CommitOnNormalExit ==
    \A s \in Scopes : kind[s] = TXN /\ Exited(s) /\ BlockCompleted(s) =>
        /\ Calls(db[s], "commit") = 1
        /\ Calls(db[s], "close") = 1
        /\ Calls(db[s], "rollback") = (IF CommitFailed(s) THEN 1 ELSE 0)
        /\ Before(db[s], "commit", "rollback")

\* A transactional scope whose block returned has been left after a commit
\* that returned.
C4_Witness ==
    \E s \in Scopes :
        /\ kind[s] = TXN /\ Exited(s) /\ BlockCompleted(s)
        /\ ~CommitFailed(s) /\ Calls(db[s], "commit") = 1

\* C5 as stated: on a session of get_db the provider calls close and
\* nothing else: no commit and no rollback, on any path.
C5_Original ==
    \A s \in Scopes : kind[s] = PLAIN /\ Acquired(s) =>
        Calls(db[s], "commit") = 0 /\ Calls(db[s], "rollback") = 0

\* C5 as amended: on a session of get_db the provider never calls commit;
\* when the block returned (or was left by a non-Exception signal) the only
\* call the provider makes is the close; when the block raised an Exception
\* the provider calls rollback exactly once and then close.
C5_PlainScopeNoCommit ==
    \A s \in Scopes : kind[s] = PLAIN /\ Acquired(s) =>
        LET h == db[s] IN
        /\ Calls(h, "commit") = 0
        /\ ~BlockFailed(s) => Calls(h, "rollback") = 0
        /\ Before(h, "rollback", "close")
        /\ Exited(s) =>
            /\ Calls(h, "close") = 1
            /\ Calls(h, "rollback") = (IF BlockFailed(s) THEN 1 ELSE 0)

\* Two get_db scopes have been left, one after a block that returned and
\* one after a block that raised an Exception.
C5_Witness ==
    \E s, t \in Scopes :
        /\ kind[s] = PLAIN /\ Exited(s) /\ Acquired(s) /\ raised[s] = NoExc
        /\ kind[t] = PLAIN /\ Exited(t) /\ BlockFailed(t)
        /\ Calls(db[t], "rollback") = 1

-----------------------------------------------------------------------------
\* The life-cycle state of a handle, read off what has been called on it.
HState(h) ==
    IF owner[h] = NoScope THEN "UNALLOCATED"
    ELSE IF Calls(h, "close") > 0 THEN "RELEASED"
    ELSE IF Calls(h, "commit") > 0 THEN "COMMITTING"
    ELSE "ACTIVE"

LifecycleEdges ==
    {<<"UNALLOCATED", "ACTIVE">>, <<"ACTIVE", "COMMITTING">>,
     <<"ACTIVE", "RELEASED">>, <<"COMMITTING", "RELEASED">>}

\* The scopes whose variable db is handle h.
Holders(h) == {s \in Scopes : db[s] = h}

\* C6: every handle moves along UNALLOCATED -> ACTIVE -> (COMMITTING ->)
\* RELEASED and along no other edge; a handle is COMMITTING only in a
\* get_db_context scope whose block returned; once RELEASED nothing more is
\* called on the handle, and a scope that enters is never given a handle
\* that was allocated before.
C6_Lifecycle ==
    [][ /\ \A h \in Handles :
            /\ HState(h)' # HState(h) => <<HState(h), HState(h)'>> \in LifecycleEdges
            /\ HState(h)' = "COMMITTING" =>
                 /\ kind'[owner'[h]] = TXN
                 /\ raised'[owner'[h]] = NoExc
            /\ HState(h) = "RELEASED" => ops'[h] = ops[h] /\ owner'[h] = owner[h]
            /\ Cardinality(Holders(h)') <= 1
        /\ \A s \in Scopes :
            db'[s] # db[s] => db[s] = NoHandle /\ HState(db'[s]) = "UNALLOCATED"
      ]_vars

\* A handle went through COMMITTING and is RELEASED, and a later scope holds
\* another handle.
C6_Witness ==
    \E h \in Handles, s \in Scopes :
        /\ HState(h) = "RELEASED" /\ Calls(h, "commit") = 1
        /\ owner[h] < s /\ Acquired(s) /\ db[s] # h /\ pc[s] = "yielded"

\* DB_PASSWORD is unset or empty.
CredentialMissing == DB_PASSWORD = None \/ DB_PASSWORD = ""
\* The module's top-level code has run to its end, one way or the other.
StartupOver == boot \in {"ready", "failed"}

\* C7: when DB_PASSWORD is unset or empty, create_engine is never called,
\* no engine and no session factory ever exist, no scope is ever entered,
\* and the start-up ends by raising.
C7_MissingCredential ==
    CredentialMissing =>
        /\ createEngineCalls = 0 /\ engineOutcome = NotCalled
        /\ engine # "Engine"
        /\ ~SessionLocal
        /\ boot # "ready"
        /\ \A s \in Scopes : pc[s] = "idle" /\ ~Acquired(s)
        /\ StartupOver => boot = "failed" /\ startupExc # NoExc

\* The start-up has ended with an empty DB_PASSWORD.
C7_Witness == DB_PASSWORD = "" /\ boot = "failed" /\ startupExc # NoExc

\* The call of connect_to_postgresql on line 70 has been made and its
\* construction failed: get_db_url raised, or create_engine raised.
ConstructionFailed ==
    /\ boot # "importing"
    /\ CredentialMissing \/ engineOutcome \in EngineErrors

\* C8: connect_to_postgresql never lets a failure out: once it has been
\* called it has returned a value, which is None with exactly one error
\* line logged when building the URL or the engine failed, and an engine
\* exactly when create_engine was called and returned; create_engine is
\* called at most once.
C8_ConnectNeverRaises ==
    boot # "importing" =>
        /\ engine # "unbound"
        /\ createEngineCalls <= 1
        /\ ConstructionFailed =>
            /\ engine = None
            /\ Len(startupLog) = 1 /\ startupLog[1].level = "error"
            /\ startupLog[1].e # NoExc
        /\ engine = "Engine" <=> (createEngineCalls = 1 /\ engineOutcome = NoExc)
        /\ engine = "Engine" => \A i \in DOMAIN startupLog : startupLog[i].level # "error"

\* connect_to_postgresql has returned after create_engine raised.
C8_Witness ==
    /\ boot = "engine_assigned" /\ engineOutcome \in EngineErrors
    /\ engine = None /\ createEngineCalls = 1

\* C9 as stated: when create_engine raises, no exception leaves the
\* start-up and the start-up goes on; only a missing credential ends it.
C9_Original ==
    /\ engineOutcome \in EngineErrors => startupExc = NoExc /\ boot # "failed"
    /\ boot = "failed" => CredentialMissing

\* C9 as amended: when create_engine raises, connect_to_postgresql catches
\* the error, logs it and returns None, so the error itself never leaves
\* the start-up; the module's check of the engine then raises "Failed to
\* initialize database engine", which ends the start-up just as a missing
\* credential does: no session factory is created and the start-up never
\* becomes ready.
C9_ConnectivityErrorCaughtThenFatal ==
    engineOutcome \in EngineErrors =>
        /\ engine = None
        /\ startupLog = <<[level |-> "error", e |-> engineOutcome]>>
        /\ startupExc # engineOutcome
        /\ ~SessionLocal /\ boot # "ready"
        /\ StartupOver =>
            /\ boot = "failed"
            /\ startupExc = Exc("Exception", "Failed to initialize database engine")

\* The start-up has ended after create_engine raised.
C9_Witness == engineOutcome \in EngineErrors /\ boot = "failed"

\* Scope s called SessionLocal() and the call raised.
AcquireFailed(s) == pc[s] # "idle" /\ ~Acquired(s)

\* C10: when SessionLocal() raises, that failure is what the caller of
\* get_db / get_db_context observes, at once: the block is not run, nothing
\* is called on any session for that attempt, no session belongs to it and
\* no line is logged.
C10_AcquireFailurePropagates ==
    \A s \in Scopes : AcquireFailed(s) =>
        /\ Exited(s) /\ result[s] = AcquireError
        /\ raised[s] = NoExc /\ exc[s] = NoExc
        /\ log[s] = <<>>
        /\ \A h \in Handles :
            /\ owner[h] # s
            /\ \A i \in DOMAIN ops[h] : ops[h][i].by # s

\* One attempt of each scope failed to acquire a session.
C10_Witness ==
    \E s, t \in Scopes :
        /\ AcquireFailed(s) /\ kind[s] = PLAIN
        /\ AcquireFailed(t) /\ kind[t] = TXN

-----------------------------------------------------------------------------
\* Scope s is open: it holds a session and has not been left.
Open(s) == Acquired(s) /\ ~Exited(s)

\* C11: under any interleaving of open scopes of either kind, every scope
\* that entered holds a handle of its own, built by its own call of
\* SessionLocal(); no handle is held by two scopes; and every use, commit,
\* rollback and close on a handle was issued by the scope that holds it, so
\* a scope that fails or exits touches no other scope's handle.
C11_ExclusiveOwnership ==
    /\ \A s \in Scopes : Acquired(s) => db[s] \in Handles /\ owner[db[s]] = s
    /\ \A s, t \in Scopes : s # t /\ Acquired(s) /\ Acquired(t) => db[s] # db[t]
    /\ \A h \in Handles :
        /\ owner[h] = NoScope => ops[h] = <<>>
        /\ owner[h] # NoScope => db[owner[h]] = h
        /\ \A i \in DOMAIN ops[h] : ops[h][i].by = owner[h]

\* Two scopes of different kinds were open together; one has since rolled
\* back and closed its handle while the other, still in its block, holds a
\* different handle on which nothing was called.
C11_Witness ==
    \E s, t \in Scopes :
        /\ kind[s] # kind[t]
        /\ Exited(s) /\ BlockFailed(s) /\ Calls(db[s], "rollback") = 1
        /\ Calls(db[s], "close") = 1
        /\ Open(t) /\ pc[t] = "yielded" /\ db[t] # db[s] /\ ops[db[t]] = <<>>

-----------------------------------------------------------------------------
\* The error line the except clause writes for exception e.
ErrorLine(e) == [level |-> "error", e |-> e]

\* C13: in both scopes, when the caller's block raised a failure, the
\* entering code observes a failure only after the clean-up: the error line
\* is written before the rollback is called, the rollback is called before
\* the close, and nothing has left the scope while the handle is unclosed.
C13_FailureAfterCleanup ==
    \A s \in Scopes : BlockFailed(s) =>
        LET h == db[s] IN
        /\ Calls(h, "rollback") > 0 => log[s] = <<ErrorLine(raised[s])>>
        /\ Calls(h, "close") > 0 =>
            Calls(h, "rollback") = 1 /\ Before(h, "rollback", "close")
        /\ result[s] # Pending =>
            /\ Calls(h, "close") = 1
            /\ result[s] # Returned
        /\ Calls(h, "close") = 0 => result[s] = Pending

\* A scope of each kind was left by the failure its block raised, after
\* the error line, the rollback and the close.
C13_Witness ==
    \E s, t \in Scopes :
        /\ kind[s] = PLAIN /\ BlockFailed(s) /\ result[s] = raised[s]
        /\ kind[t] = TXN /\ BlockFailed(t) /\ result[t] = raised[t]
        /\ Calls(db[s], "close") = 1 /\ Calls(db[t], "close") = 1

-----------------------------------------------------------------------------
\* C15: in get_db_context, when the block returned and the automatic commit
\* raised, the scope ends with one error line, exactly one rollback called
\* after the commit, exactly one close, and the commit's failure is what
\* the entering code observes.
C15_CommitFailureHandled ==
    \A s \in Scopes :
        kind[s] = TXN /\ Exited(s) /\ BlockCompleted(s) /\ CommitFailed(s) =>
            /\ log[s] = <<ErrorLine(CommitError)>>
            /\ Calls(db[s], "rollback") = 1
            /\ Before(db[s], "commit", "rollback")
            /\ Calls(db[s], "close") = 1
            /\ result[s] = CommitError

\* The rollback of scope s was called and raised.
RollbackFailed(s) ==
    Acquired(s) /\ \E i \in Pos(db[s], "rollback") : ~ops[db[s]][i].ok

\* C16: in both scopes, when the rollback of the failure handling raised,
\* the close is the next and only thing called on the handle, exactly once,
\* and the scope is left by a failure; a scope whose block raised a failure
\* is never left normally.
C16_RollbackFailureStillReleases ==
    \A s \in Scopes :
        /\ RollbackFailed(s) =>
            /\ pc[s] \in {"finally", "done"}
            /\ Calls(db[s], "rollback") = 1
            /\ Before(db[s], "rollback", "close")
            /\ Exited(s) =>
                /\ Calls(db[s], "close") = 1
                /\ IsException(result[s]) /\ result[s] \notin {Pending, Returned}
        /\ BlockFailed(s) /\ Exited(s) => result[s] \notin {Pending, Returned}

\* A scope of each kind was left after its rollback raised and its close
\* returned.
C16_Witness ==
    \E s, t \in Scopes :
        /\ kind[s] = PLAIN /\ RollbackFailed(s) /\ result[s] = RollbackError
        /\ kind[t] = TXN /\ RollbackFailed(t) /\ result[t] = RollbackError
        /\ Calls(db[s], "close") = 1 /\ Calls(db[t], "close") = 1

\* C17: when the block is left by a signal that is not an Exception (the
\* get_db generator is closed early, or an interrupt passes through), the
\* handle is closed exactly once, the provider calls no rollback and no
\* commit and writes no log line, and the signal leaves the scope unchanged.
C17_SignalUnwinds ==
    \A s \in Scopes : raised[s] \in BlockSignals =>
        /\ Calls(db[s], "rollback") = 0
        /\ Calls(db[s], "commit") = 0
        /\ log[s] = <<>>
        /\ Exited(s) => Calls(db[s], "close") = 1 /\ result[s] = raised[s]

-----------------------------------------------------------------------------
\* C14: with the caller's block and the calls on the session terminating
\* and the scope's statements scheduled fairly, every scope that acquired a
\* handle eventually has closed it: no open scope is cancelled, abandoned
\* or stuck, as the next statement of an open scope can always be executed.
\* (A run has finitely many scope entries and a closed handle stays closed,
\* so "each acquired handle is eventually closed" is "from some point on
\* every acquired handle is closed".)
C14_EventuallyReleased ==
    /\ [](\A s \in Scopes : Open(s) => ENABLED <<ScopeStep(s)>>_vars)
    /\ <>[](\A s \in Scopes :
              Acquired(s) => Exited(s) /\ HState(db[s]) = "RELEASED")

\* Two scopes that were open together have both closed their handles.
C14_Witness ==
    \A s \in Scopes : Exited(s) /\ Acquired(s) /\ HState(db[s]) = "RELEASED"

-----------------------------------------------------------------------------
\* The pool exists: create_engine was called and returned the engine.
PoolCreated == engine = "Engine" /\ createEngineCalls = 1
\* Some function has worked on the engine or on a session of it.
PoolUsed ==
    \/ \E s \in Scopes : pc[s] # "idle"
    \/ initDb # "not called" \/ lastCheck # "not called" \/ closeDb # "not called"

====
